---- MODULE Spec2Model ----
(***************************************************************************)
(* Model of the karstegg/audio-transcription pipeline.                     *)
(*                                                                         *)
(* Spec      : the cancellable pipeline of src/main.js lines 529-1097      *)
(*             (handleTranscriptionRequest / processLargeFile /            *)
(*             transcribeAudio / handleCancelReset / generateSummary).     *)
(* SpecLive  : Spec with every pending promise eventually settling.        *)
(* SpecChunk : chunkFile applied to a drawn file and maximum chunk size.   *)
(* SpecMime  : getAudioMimeType applied to a drawn name and declared type. *)
(* SpecStt   : the two speech adapters of src/speechClient.js from the     *)
(*             recognition response on.                                    *)
(* SpecSettings : the request settings of transcribeAudioWithSpeechToText. *)
(* SpecV2    : the dual-API pipeline of src/main.js lines 150-528 with     *)
(*             transcribeAudioWithSpeechToText of src/speechClient.js.     *)
(* SpecV1    : the threshold pipeline of src/main.js lines 1-148 with      *)
(*             src/audioProcessor.js.                                      *)
(*                                                                         *)
(* Text is modelled as a sequence of tokens; a token is a record           *)
(* [k, n]: k = "txt" is the text the backend returned for chunk n,         *)
(* k = "sp" is one space character, k = "err" is the placeholder           *)
(* "[Error transcribing part n]", k = "msg" is a user-facing message.      *)
(* File sizes are counted in MiB.                                          *)
(***************************************************************************)
EXTENDS Integers, Sequences, FiniteSets, TLC

\* ------------------------------------------------------------------ bounds

\* Transcription requests (clicks on "transcribe" with a file) per behaviour.
MaxRuns == 2

\* Summary requests per behaviour.
MaxSums == 1

\* The largest file selectable in Spec spans this many chunks.
MaxChunks == 2

\* The largest file size, in bytes, handed to chunkFile in SpecChunk.
MaxProbeSize == 8

\* The largest maximum chunk size, in bytes, handed to chunkFile in SpecChunk.
MaxProbeChunk == 4

\* The longest file name of the MIME resolver's inputs, in name pieces.
MaxNameLen == 3

\* The most result segments of a recognition response.
MaxResults == 2

\* The most words of a result segment's top alternative.
MaxWords == 3

\* -------------------------------------------------------- program constants

\* effectiveChunkSize = 15 * 1024 * 1024, in MiB.
EffectiveChunkSize == 15

\* CONFIG.fileProcessing.maxChunkSize = 22 * 1024 * 1024, in MiB: the
\* configuration of the dual-API and the cancellable pipeline.
ConfigMaxChunkSize == 22

\* CONFIG.fileProcessing.maxChunkSize = 15 * 1024 * 1024, in MiB: the
\* configuration of the threshold pipeline (the one with CONFIG.api).
ConfigMaxChunkSizeV1 == 15

\* ------------------------------------------------------------------- state

VARIABLES
    file,                  \* audioFileInput.files[0], or NoFile
    abortController,       \* the global abortController: Null or a controller
    aborted,               \* controllers whose signal has been aborted
    currentTranscription,  \* the global currentTranscription
    transcriptionOutput,   \* transcriptionOutput.textContent
    summaryOutput,         \* summaryOutput.textContent
    statusHidden,          \* statusIndicator carries class 'hidden'
    pc,                    \* where each transcription run is suspended
    chunks,                \* processLargeFile: const chunks
    idx,                   \* processLargeFile: loop variable i (0-based)
    full,                  \* processLargeFile: let fullTranscription
    callSig,               \* the signal handed to the run's call in flight
    calls,                 \* observed: chunk numbers sent to the backend
    responses,             \* observed: the backend's answer to each call
    cancelled,             \* observed: where the run was when cancel came
    sumPc,                 \* where each summary generation is suspended
    sumSig,                \* the signal handed to the summary call
    toast,                 \* the text of the toast on the page, or Empty
    probe,                 \* a pure function's input and output
    v2,                    \* the page and runs of the dual-API pipeline
    v1                     \* the page and runs of the threshold pipeline

vars == <<file, abortController, aborted, currentTranscription,
          transcriptionOutput, summaryOutput, statusHidden, pc, chunks, idx,
          full, callSig, calls, responses, cancelled, sumPc, sumSig, toast,
          probe, v2, v1>>

runVars == <<pc, chunks, idx, full, callSig, calls, responses, cancelled>>

sumVars == <<sumPc, sumSig, toast>>

\* The page and its requests: everything but the probe.
appVars == <<file, abortController, aborted, currentTranscription,
             transcriptionOutput, summaryOutput, statusHidden, runVars, sumVars>>

\* The page and its requests without the toast.
appVarsButToast == <<file, abortController, aborted, currentTranscription,
                     transcriptionOutput, summaryOutput, statusHidden, runVars,
                     sumPc, sumSig>>

\* What the pipeline of Spec never touches.
auxVars == <<probe, v2, v1>>

Runs == 1..MaxRuns

Sums == 1..MaxSums

\* A controller is named after the request that created it.
RunCtl(r) == r

SumCtl(s) == MaxRuns + s

Null == 0

NoFile == [size |-> -1, type |-> "", name |-> ""]

\* The run has not been in flight at any cancel.
NotCancelled == [at |-> "none", calls |-> 0]

NoProbe == [fn |-> "none"]

\* ------------------------------------------------------------------- text

Space == [k |-> "sp", n |-> 0]

\* response.text() of the backend call for chunk number n (1-based).
ChunkText(n) == <<[k |-> "txt", n |-> n]>>

Msg(n) == <<[k |-> "msg", n |-> n]>>

MsgSelectFile == Msg(1)

MsgSummaryError == Msg(2)

SummaryText == Msg(3)

\* `Error: ${error.message}`
MsgError == Msg(5)

\* 'No transcript to summarize'
MsgNoTranscript == Msg(6)

Empty == <<>>

\* The placeholder numbered by the loop variable itself (off by one).
ErrorSegmentOffByOne(i) == <<Space, [k |-> "err", n |-> i], Space>>

\* ` [Error transcribing part ${i + 1}] ` for loop variable i.
ErrorSegment(i) == <<Space, [k |-> "err", n |-> i + 1], Space>>

\* chunkTranscription + ' '
TextSegment(text) == text \o <<Space>>

\* A line break.
Newline == [k |-> "nl", n |-> 0]

\* The characters String.prototype.trim takes off.
IsWhitespace(tok) == tok \in {Space, Newline}

\* String.prototype.trim on a token sequence.
RECURSIVE TrimLeft(_)
TrimLeft(s) == IF s # <<>> /\ IsWhitespace(Head(s)) THEN TrimLeft(Tail(s)) ELSE s

RECURSIVE TrimRight(_)
TrimRight(s) ==
    IF s # <<>> /\ IsWhitespace(s[Len(s)])
    THEN TrimRight(SubSeq(s, 1, Len(s) - 1))
    ELSE s

Trim(s) == TrimRight(TrimLeft(s))

\* ---------------------------------------------------------------- chunker

\* Math.max where Math.min was meant.
MaxInsteadOfMin(a, b) == IF a < b THEN b ELSE a

Min(a, b) == IF a < b THEN a ELSE b

\* An offset given to Blob.slice, brought into 0..size: a negative offset
\* counts from the end.
Clamp(x, size) ==
    IF x < 0 THEN (IF size + x < 0 THEN 0 ELSE size + x)
    ELSE IF x > size THEN size ELSE x

\* Every slice starts at the beginning of the file.
SliceFromZero(f, start, end) ==
    [start |-> 0, end |-> Clamp(end, f.size), type |-> "", name |-> ""]

\* file.slice(start, end): a Blob over the clamped range [start, end), of
\* no bytes when end is before start, with no type and no name.
Slice(f, start, end) ==
    LET s == Clamp(start, f.size)
        e == Clamp(end, f.size)
    IN [start |-> s, end |-> IF e < s THEN s ELSE e, type |-> "", name |-> ""]

\* Only the name is copied; the chunk keeps the empty type of the slice.
PreserveNameOnly(chunk, f) == [chunk EXCEPT !.name = f.name]

\* Object.defineProperty(chunk, 'type' / 'name', { value: file.type / file.name })
PreserveMeta(chunk, f) == [chunk EXCEPT !.type = f.type, !.name = f.name]

\* The while loop of chunkFile, from byte offset start. maxChunk is
\* effectiveChunkSize (main.js) or CONFIG.fileProcessing.maxChunkSize
\* (audioProcessor.js); the two loops are otherwise the same.
RECURSIVE ChunkLoop(_, _, _, _)
ChunkLoop(f, maxChunk, start, acc) ==
    IF start < f.size
    THEN LET end == Min(start + maxChunk, f.size)
             chunk == PreserveMeta(Slice(f, start, end), f)
         IN ChunkLoop(f, maxChunk, end, Append(acc, chunk))
    ELSE acc

chunkFile(f, maxChunk) == ChunkLoop(f, maxChunk, 0, <<>>)

\* ------------------------------------------------------------------ files

\* Empty, and one size for each number of chunks; the size of two chunks
\* lies between the effective and the configured chunk size.
FileSizes == {0} \cup {k * EffectiveChunkSize + 5 : k \in 0..(MaxChunks - 1)}

Files == {[size |-> s, type |-> "audio/mpeg", name |-> "a.mp3"] : s \in FileSizes}

\* ------------------------------------------------------------------- init

\* A run of the dual-API pipeline that has not been requested.
V2Idle ==
    [pc |-> "idle", useGemini |-> FALSE, src |-> NoFile, audio |-> NoFile,
     chunks |-> <<>>, idx |-> 0, full |-> Empty, sent |-> <<>>]

\* The dual-API page after its initApp; client tells whether
\* new SpeechClient() succeeded when speechClient.js was loaded.
V2Start(client) ==
    [file |-> NoFile, speechClient |-> client, out |-> Empty,
     statusHidden |-> TRUE, run |-> [r \in Runs |-> V2Idle]]

\* A run of the threshold pipeline that has not been requested.
V1Idle ==
    [pc |-> "idle", useSTT |-> FALSE, src |-> NoFile, audio |-> NoFile,
     chunked |-> FALSE, chunks |-> <<>>, idx |-> 0, full |-> Empty,
     sent |-> <<>>, outcomes |-> <<>>]

\* The threshold page once the DOM is loaded.
V1Start == [file |-> NoFile, out |-> Empty, run |-> [r \in Runs |-> V1Idle]]

\* The page after initApp.
InitApp ==
    /\ file = NoFile
    /\ abortController = Null
    /\ aborted = {}
    /\ currentTranscription = Empty
    /\ transcriptionOutput = Empty
    /\ summaryOutput = Empty
    /\ statusHidden = TRUE
    /\ pc = [r \in Runs |-> "idle"]
    /\ chunks = [r \in Runs |-> <<>>]
    /\ idx = [r \in Runs |-> 0]
    /\ full = [r \in Runs |-> Empty]
    /\ callSig = [r \in Runs |-> Null]
    /\ calls = [r \in Runs |-> <<>>]
    /\ responses = [r \in Runs |-> <<>>]
    /\ cancelled = [r \in Runs |-> NotCancelled]
    /\ sumPc = [s \in Sums |-> "idle"]
    /\ sumSig = [s \in Sums |-> Null]
    /\ toast = Empty

Init ==
    /\ InitApp
    /\ probe = NoProbe
    /\ v2 = V2Start(TRUE)
    /\ v1 = V1Start

InFlight(r) == pc[r] \in {"reading", "calling", "delay"}

\* ------------------------------------------------- transcription pipeline

\* The catch of handleTranscriptionRequest: the transcript display after an
\* error named name was caught while it showed disp.
CatchDisplay(name, disp) == IF name = "AbortError" THEN disp ELSE MsgError

\* The catch of generateSummary, likewise.
SummaryCatchDisplay(name, disp) ==
    IF name = "AbortError" THEN disp ELSE MsgSummaryError

\* if (!abortController || abortController.signal.aborted)
AbortRequested(ac) == ac = Null \/ ac \in aborted

\* for (let i = 0; ...; i++): the value of i in the next iteration.
NextIndex(i) == i + 1

\* Every iteration sends the first chunk again.
ChunkNumberStuck(i) == 1

\* transcribeAudio(chunks[i], model, i + 1, chunks.length): the chunk sent in
\* iteration i, by its 1-based number.
ChunkNumber(i) == i + 1

\* i < chunks.length - 1: the delay follows every chunk but the last.
DelayFollows(i, n) == i < n - 1

\* Control of run r reaches the loop condition of processLargeFile with loop
\* variable i and fullTranscription f, and runs on to the next suspension
\* point or to the end of handleTranscriptionRequest. ac, cur and disp are
\* the values of abortController, currentTranscription and
\* transcriptionOutput.textContent at that moment and n is chunks.length.
LoopIter(r, i, f, ac, cur, disp, n) ==
    /\ idx' = [idx EXCEPT ![r] = i]
    /\ full' = [full EXCEPT ![r] = f]
    /\ IF i < n
       THEN IF AbortRequested(ac)
            THEN \* throw AbortError; catch: hideStatus(); finally: null
                 /\ pc' = [pc EXCEPT ![r] = "aborted"]
                 /\ statusHidden' = TRUE
                 /\ abortController' = Null
                 /\ currentTranscription' = cur
                 /\ transcriptionOutput' = CatchDisplay("AbortError", disp)
            ELSE \* showStatus; transcribeAudio: same check; await read
                 /\ pc' = [pc EXCEPT ![r] = "reading"]
                 /\ statusHidden' = FALSE
                 /\ abortController' = ac
                 /\ currentTranscription' = cur
                 /\ transcriptionOutput' = disp
       ELSE \* currentTranscription = fullTranscription; displayResult;
            \* hideStatus(); finally: abortController = null
            /\ pc' = [pc EXCEPT ![r] = "done"]
            /\ statusHidden' = TRUE
            /\ abortController' = Null
            /\ currentTranscription' = f
            /\ transcriptionOutput' = f

\* The catch of processLargeFile for an error that is not an AbortError:
\* the placeholder is appended and the loop goes on.
ChunkFailed(r) ==
    LoopIter(r, NextIndex(idx[r]), full[r] \o ErrorSegment(idx[r]),
             abortController, currentTranscription, transcriptionOutput,
             Len(chunks[r]))

\* The validation is left out: every submit goes on to the pipeline.
FileNeverMissing(f) == FALSE

\* if (!file): audioFileInput.files[0] is undefined.
FileMissing(f) == f = NoFile

\* The validation comes after the reset of the outputs and of
\* currentTranscription.
SubmitNoFileResets ==
    /\ FileMissing(file)
    /\ transcriptionOutput' = MsgSelectFile
    /\ currentTranscription' = Empty
    /\ summaryOutput' = Empty
    /\ UNCHANGED <<file, abortController, aborted, statusHidden, runVars,
                   sumVars, auxVars>>

\* handleTranscriptionRequest with no file selected.
SubmitNoFile ==
    /\ FileMissing(file)
    /\ transcriptionOutput' = MsgSelectFile
    /\ UNCHANGED <<file, abortController, aborted, currentTranscription,
                   summaryOutput, statusHidden, runVars, sumVars, auxVars>>

\* handleTranscriptionRequest with a file, up to its first suspension.
Submit(r) ==
    /\ ~FileMissing(file)
    /\ pc[r] = "idle"
    /\ \A q \in Runs : q < r => pc[q] # "idle"
    /\ chunks' = [chunks EXCEPT ![r] = chunkFile(file, EffectiveChunkSize)]
    /\ summaryOutput' = Empty
    /\ LoopIter(r, 0, Empty, RunCtl(r), Empty, Empty, Len(chunks'[r]))
    /\ UNCHANGED <<file, aborted, callSig, calls, responses, cancelled, sumVars, auxVars>>

\* readFileAsArrayBuffer resolves; transcribeAudio goes on to generateContent.
ReadResolve(r) ==
    /\ pc[r] = "reading"
    /\ IF abortController = Null
       THEN \* abortController.signal: TypeError, caught as a chunk failure
            /\ ChunkFailed(r)
            /\ UNCHANGED <<callSig, calls>>
       ELSE /\ pc' = [pc EXCEPT ![r] = "calling"]
            /\ callSig' = [callSig EXCEPT ![r] = abortController]
            /\ calls' = [calls EXCEPT ![r] = Append(@, ChunkNumber(idx[r]))]
            /\ UNCHANGED <<abortController, currentTranscription,
                           transcriptionOutput, statusHidden, idx, full>>
    /\ UNCHANGED <<file, aborted, summaryOutput, chunks, responses, cancelled,
                   sumVars, auxVars>>

\* readFileAsArrayBuffer rejects (reader.onerror).
ReadReject(r) ==
    /\ pc[r] = "reading"
    /\ ChunkFailed(r)
    /\ UNCHANGED <<file, aborted, summaryOutput, chunks, callSig, calls,
                   responses, cancelled, sumVars, auxVars>>

\* generateContent resolves with the chunk's text.
CallResolve(r) ==
    /\ pc[r] = "calling"
    /\ callSig[r] \notin aborted
    /\ responses' = [responses EXCEPT ![r] = Append(@, "ok")]
    /\ LET f == full[r] \o TextSegment(ChunkText(ChunkNumber(idx[r])))
       IN IF DelayFollows(idx[r], Len(chunks[r]))
          THEN \* await new Promise(resolve => setTimeout(resolve, 1000))
               /\ pc' = [pc EXCEPT ![r] = "delay"]
               /\ full' = [full EXCEPT ![r] = f]
               /\ transcriptionOutput' = f
               /\ UNCHANGED <<abortController, currentTranscription,
                              statusHidden, idx>>
          ELSE LoopIter(r, NextIndex(idx[r]), f, abortController,
                        currentTranscription, f, Len(chunks[r]))
    /\ UNCHANGED <<file, aborted, summaryOutput, chunks, callSig, calls,
                   cancelled, sumVars, auxVars>>

\* generateContent rejects with an error that is not an AbortError.
CallReject(r) ==
    /\ pc[r] = "calling"
    /\ callSig[r] \notin aborted
    /\ responses' = [responses EXCEPT ![r] = Append(@, "fail")]
    /\ ChunkFailed(r)
    /\ UNCHANGED <<file, aborted, summaryOutput, chunks, callSig, calls,
                   cancelled, sumVars, auxVars>>

\* The aborted call never settles: its promise neither resolves nor rejects.
CallNeverSettles(r) ==
    /\ pc[r] = "calling"
    /\ callSig[r] \in aborted
    /\ UNCHANGED vars

\* generateContent rejects with AbortError: its signal was aborted. The error
\* is re-thrown by processLargeFile and caught by handleTranscriptionRequest.
CallAbort(r) ==
    /\ pc[r] = "calling"
    /\ callSig[r] \in aborted
    /\ pc' = [pc EXCEPT ![r] = "aborted"]
    /\ statusHidden' = TRUE
    /\ abortController' = Null
    /\ transcriptionOutput' = CatchDisplay("AbortError", transcriptionOutput)
    /\ UNCHANGED <<file, aborted, currentTranscription,
                   summaryOutput, chunks, idx, full, callSig, calls,
                   responses, cancelled, sumVars, auxVars>>

\* The inter-chunk timer fires.
DelayDone(r) ==
    /\ pc[r] = "delay"
    /\ LoopIter(r, NextIndex(idx[r]), full[r], abortController,
                currentTranscription, transcriptionOutput, Len(chunks[r]))
    /\ UNCHANGED <<file, aborted, summaryOutput, chunks, callSig, calls,
                   responses, cancelled, sumVars, auxVars>>

\* ------------------------------------------------------------ UI handlers

handleFileSelection(f) ==
    /\ file' = f
    /\ transcriptionOutput' = Empty
    /\ summaryOutput' = Empty
    /\ UNCHANGED <<abortController, aborted, currentTranscription,
                   statusHidden, runVars, sumVars, auxVars>>

handleCancelReset ==
    /\ IF abortController # Null
       THEN /\ aborted' = aborted \cup {abortController}
            /\ abortController' = Null
       ELSE UNCHANGED <<aborted, abortController>>
    /\ file' = NoFile
    /\ transcriptionOutput' = Empty
    /\ summaryOutput' = Empty
    /\ statusHidden' = TRUE
    /\ currentTranscription' = Empty
    /\ cancelled' = [r \in Runs |->
                        IF InFlight(r) /\ cancelled[r] = NotCancelled
                        THEN [at |-> pc[r], calls |-> Len(calls[r])]
                        ELSE cancelled[r]]
    /\ UNCHANGED <<pc, chunks, idx, full, callSig, calls, responses, sumVars, auxVars>>

\* ---------------------------------------------------------------- summary

\* The check is left out: every transcript is summarized.
AlwaysSummarize(t) == FALSE

\* !currentTranscription.trim()
NothingToSummarize(t) == Trim(t) = Empty

\* generateSummary when there is nothing to summarize: a toast, and return.
generateSummaryNoTranscript ==
    /\ NothingToSummarize(currentTranscription)
    /\ toast' = MsgNoTranscript
    /\ UNCHANGED <<file, abortController, aborted, currentTranscription,
                   transcriptionOutput, summaryOutput, statusHidden, runVars,
                   sumPc, sumSig, auxVars>>

\* The toast is taken off the page three seconds after it was shown.
ToastExpire ==
    /\ toast # Empty
    /\ toast' = Empty
    /\ UNCHANGED <<file, abortController, aborted, currentTranscription,
                   transcriptionOutput, summaryOutput, statusHidden, runVars,
                   sumPc, sumSig, auxVars>>

\* generateSummary up to the await of generateContent.
generateSummary(s) ==
    /\ sumPc[s] = "idle"
    /\ \A q \in Sums : q < s => sumPc[q] # "idle"
    /\ ~NothingToSummarize(currentTranscription)
    /\ statusHidden' = FALSE
    /\ summaryOutput' = Empty
    /\ abortController' = SumCtl(s)
    /\ sumSig' = [sumSig EXCEPT ![s] = SumCtl(s)]
    /\ sumPc' = [sumPc EXCEPT ![s] = "calling"]
    /\ UNCHANGED <<file, aborted, currentTranscription, transcriptionOutput,
                   runVars, toast, auxVars>>

SummaryResolve(s) ==
    /\ sumPc[s] = "calling"
    /\ sumSig[s] \notin aborted
    /\ summaryOutput' = SummaryText
    /\ statusHidden' = TRUE
    /\ abortController' = Null
    /\ sumPc' = [sumPc EXCEPT ![s] = "done"]
    /\ UNCHANGED <<file, aborted, currentTranscription, transcriptionOutput,
                   runVars, sumSig, toast, auxVars>>

\* The catch of generateSummary without its hideStatus().
SummaryRejectKeepsStatus(s) ==
    /\ sumPc[s] = "calling"
    /\ sumSig[s] \notin aborted
    /\ transcriptionOutput' = SummaryCatchDisplay("Error", transcriptionOutput)
    /\ abortController' = Null
    /\ sumPc' = [sumPc EXCEPT ![s] = "failed"]
    /\ UNCHANGED <<file, aborted, currentTranscription, summaryOutput,
                   statusHidden, runVars, sumSig, toast, auxVars>>

SummaryReject(s) ==
    /\ sumPc[s] = "calling"
    /\ sumSig[s] \notin aborted
    /\ transcriptionOutput' = SummaryCatchDisplay("Error", transcriptionOutput)
    /\ statusHidden' = TRUE
    /\ abortController' = Null
    /\ sumPc' = [sumPc EXCEPT ![s] = "failed"]
    /\ UNCHANGED <<file, aborted, currentTranscription, summaryOutput,
                   runVars, sumSig, toast, auxVars>>

SummaryAbort(s) ==
    /\ sumPc[s] = "calling"
    /\ sumSig[s] \in aborted
    /\ statusHidden' = TRUE
    /\ abortController' = Null
    /\ sumPc' = [sumPc EXCEPT ![s] = "aborted"]
    /\ transcriptionOutput' = SummaryCatchDisplay("AbortError", transcriptionOutput)
    /\ UNCHANGED <<file, aborted, currentTranscription,
                   summaryOutput, runVars, sumSig, toast, auxVars>>

\* ---------------------------------------------------------- specification

Next ==
    \/ SubmitNoFile
    \/ \E r \in Runs : Submit(r)
    \/ \E r \in Runs : ReadResolve(r)
    \/ \E r \in Runs : ReadReject(r)
    \/ \E r \in Runs : CallResolve(r)
    \/ \E r \in Runs : CallReject(r)
    \/ \E r \in Runs : CallAbort(r)
    \/ \E r \in Runs : DelayDone(r)
    \/ \E f \in Files : handleFileSelection(f)
    \/ handleCancelReset
    \/ generateSummaryNoTranscript
    \/ ToastExpire
    \/ \E s \in Sums : generateSummary(s)
    \/ \E s \in Sums : SummaryResolve(s)
    \/ \E s \in Sums : SummaryReject(s)
    \/ \E s \in Sums : SummaryAbort(s)

Spec == Init /\ [][Next]_vars

\* The pending promise of run r settles, or its timer fires, and the run
\* goes on to its next suspension point or to its end.
Settle(r) ==
    \/ ReadResolve(r)
    \/ ReadReject(r)
    \/ CallResolve(r)
    \/ CallReject(r)
    \/ CallAbort(r)
    \/ DelayDone(r)

\* Every file read and every backend call eventually resolves or rejects,
\* and every timer fires.
SpecLive == Spec /\ \A r \in Runs : WF_vars(Settle(r))

\* ------------------------------------------------- observations on a run

\* The segments of a transcript: its tokens that are not spaces, in order.
Segments(t) == SelectSeq(t, LAMBDA tok : tok # Space)

\* The backend was called once for each chunk 1..n, in order.
CalledEachOnce(r, n) == calls[r] = [i \in 1..n |-> i]

\* The backend call for chunk k failed and the other n - 1 calls succeeded.
OnlyCallFailed(r, k, n) ==
    /\ CalledEachOnce(r, n)
    /\ responses[r] = [i \in 1..n |-> IF i = k THEN "fail" ELSE "ok"]

\* Strictly increasing sequence of numbers.
Increasing(q) == \A i \in 1..(Len(q) - 1) : q[i] < q[i + 1]

\* ----------------------------------------------------------------- claims

\* C1: when no cancel came, the call for chunk k failed and all other calls
\* succeeded, the final transcript of the run has one segment per chunk, in
\* chunk order: the placeholder of part k at position k, and the text
\* returned for chunk i at every other position i.
C1_PartialFailureIsolation ==
    \A r \in Runs : \A k \in 1..Len(chunks[r]) :
        (/\ pc[r] = "done"
         /\ cancelled[r] = NotCancelled
         /\ OnlyCallFailed(r, k, Len(chunks[r])))
        => Segments(full[r]) =
               [i \in 1..Len(chunks[r]) |->
                   IF i = k THEN [k |-> "err", n |-> k] ELSE ChunkText(i)[1]]

\* A two-chunk run finished after the call for its first chunk failed.
C1_Witness ==
    \E r \in Runs :
        /\ pc[r] = "done"
        /\ cancelled[r] = NotCancelled
        /\ Len(chunks[r]) >= 2
        /\ OnlyCallFailed(r, 1, Len(chunks[r]))

\* C2: a run that was in flight when cancel was invoked never finishes as
\* Done (it ends Aborted, its transcript is not delivered).
C2_CancelDiscardsRun ==
    \A r \in Runs : cancelled[r] # NotCancelled => pc[r] # "done"

\* C3: when cancel came between two chunks (the call of chunk i answered,
\* the call of chunk i + 1 not yet issued, i >= 1), the run's backend call
\* count stays i.
C3_NoCallAfterCancelBetweenChunks ==
    \A r \in Runs :
        (cancelled[r].at \in {"delay", "reading"} /\ cancelled[r].calls >= 1)
        => Len(calls[r]) = cancelled[r].calls

\* C4: at most one transcription run is in flight at any time.
C4_SingleActiveRun ==
    Cardinality({r \in Runs : InFlight(r)}) <= 1

\* C9: with no cancel, a run is never aborted, no chunk is sent twice, and a
\* finished run has gone through every chunk once (one segment per chunk).
C9_NoAbortNoRetry ==
    \A r \in Runs :
        cancelled[r] = NotCancelled =>
            /\ pc[r] # "aborted"
            /\ Increasing(calls[r])
            /\ pc[r] = "done" => Len(Segments(full[r])) = Len(chunks[r])

\* C10: within one run the calls go out in strictly increasing chunk order,
\* a call is issued only when every earlier call of the run has been
\* answered (at most one is unanswered, and then the run is in that call or
\* was aborted in it), and the segments of the buffer are those of chunks
\* 1, 2, ... in that order.
C10_SequentialOrdered ==
    \A r \in Runs :
        /\ Increasing(calls[r])
        /\ Len(calls[r]) - Len(responses[r]) \in {0, 1}
        /\ Len(calls[r]) - Len(responses[r]) = 1 => pc[r] \in {"calling", "aborted"}
        /\ pc[r] = "calling" => Len(calls[r]) - Len(responses[r]) = 1
        /\ \A i \in 1..Len(Segments(full[r])) : Segments(full[r])[i].n = i

\* A run is in its second call, the first one having been answered.
C10_Witness ==
    \E r \in Runs :
        /\ pc[r] = "calling"
        /\ calls[r] = <<1, 2>>
        /\ Len(responses[r]) = 1

\* C11: a cancel triggers the abort signal of every backend call that is in
\* flight at that moment, chunk transcription calls and summary calls alike.
C11_CancelReachesEveryCall ==
    [][handleCancelReset =>
          /\ \A r \in Runs : pc[r] = "calling" => callSig[r] \in aborted'
          /\ \A s \in Sums : sumPc[s] = "calling" => sumSig[s] \in aborted']_vars

\* What showError puts on the transcript display.
IsErrorMessage(t) == t \in {MsgSelectFile, MsgSummaryError, MsgError}

\* The text reports an error: a showError message, or a transcript with an
\* error placeholder in it.
ShowsError(t) == IsErrorMessage(t) \/ \E i \in 1..Len(t) : t[i].k = "err"

\* C12: the step in which a transcription run or a summary generation ends
\* Aborted leaves the transcript display as it was (showError is not called),
\* and no step of a run that was in flight at a cancel puts an error text on
\* the display.
C12_CancelNotAnError ==
    [][/\ \A r \in Runs :
              (pc[r] # "aborted" /\ pc'[r] = "aborted")
              => transcriptionOutput' = transcriptionOutput
       /\ \A s \in Sums :
              (sumPc[s] # "aborted" /\ sumPc'[s] = "aborted")
              => transcriptionOutput' = transcriptionOutput
       /\ \A r \in Runs :
              (cancelled[r] # NotCancelled /\ pc'[r] # pc[r])
              => (transcriptionOutput' = transcriptionOutput
                  \/ ~ShowsError(transcriptionOutput'))]_vars

\* C13: a transcription run is started only while a file is selected, and a
\* submit with no file selected puts the 'please select a file' message on
\* the display and touches no run, no controller and no backend call.
C13_SubmitWithoutFile ==
    [][/\ \A r \in Runs : (pc[r] = "idle" /\ pc'[r] # "idle") => file # NoFile
       /\ (file = NoFile /\ transcriptionOutput' = MsgSelectFile
              /\ transcriptionOutput # MsgSelectFile)
          => UNCHANGED <<runVars, sumVars, abortController, aborted>>]_vars

\* The message is on the display, no file is selected and no run was started.
C13_Witness ==
    /\ file = NoFile
    /\ transcriptionOutput = MsgSelectFile
    /\ \A r \in Runs : pc[r] = "idle" /\ calls[r] = <<>>

\* The segments, each followed by one space: 'A B C '.
JoinTrailing(segs) ==
    [i \in 1..(2 * Len(segs)) |-> IF i % 2 = 1 THEN segs[(i + 1) \div 2] ELSE Space]

\* The segments with one space between neighbours: 'A B C'.
JoinPlain(segs) ==
    [i \in 1..(2 * Len(segs) - 1) |-> IF i % 2 = 1 THEN segs[(i + 1) \div 2] ELSE Space]

\* The segments of run r are those of chunks 1..N, in that order.
SegmentPerChunk(r) ==
    /\ Len(Segments(full[r])) = Len(chunks[r])
    /\ \A i \in 1..Len(chunks[r]) : Segments(full[r])[i].n = i

\* C17: the final transcript of every Done run is its chunk segments, texts
\* and placeholders alike, in index order and separated by exactly one space,
\* under one policy for all runs: each segment followed by a space, or a space
\* between neighbours only.
C17_JoinPolicy ==
    /\ \A r \in Runs : pc[r] = "done" => SegmentPerChunk(r)
    /\ \/ \A r \in Runs :
              pc[r] = "done" => full[r] = JoinTrailing(Segments(full[r]))
       \/ \A r \in Runs :
              pc[r] = "done" => full[r] = JoinPlain(Segments(full[r]))

\* C18: whenever a chunk of a run completes, its call having succeeded or
\* failed, and its segment is appended to the run's buffer, the transcript
\* display is the buffer accumulated so far.
C18_IncrementalPublication ==
    [][\A r \in Runs :
          (pc[r] # "idle" /\ full'[r] # full[r])
          => transcriptionOutput' = full'[r]]_vars

\* The transcript holds nothing but whitespace.
OnlyWhitespace(t) == \A i \in 1..Len(t) : t[i] = Space

RunSize(r) == IF chunks[r] = <<>> THEN 0 ELSE chunks[r][Len(chunks[r])].end

\* ceil(s / m) for s >= 0, m > 0.
CeilDiv(s, m) == (s + m - 1) \div m

\* C23: the chunks of every run are cut with the configured maximum chunk
\* size: none is larger than CONFIG.fileProcessing.maxChunkSize and there
\* are ceil(size / configured maximum) of them.
C23_ConfiguredChunkSize ==
    \A r \in Runs :
        pc[r] # "idle" =>
            /\ \A i \in 1..Len(chunks[r]) :
                   chunks[r][i].end - chunks[r][i].start <= ConfigMaxChunkSize
            /\ Len(chunks[r]) = CeilDiv(RunSize(r), ConfigMaxChunkSize)

\* No chunk of a run is larger than the configured maximum.
ChunksWithinConfigured ==
    \A r \in Runs : \A i \in 1..Len(chunks[r]) :
        chunks[r][i].end - chunks[r][i].start <= ConfigMaxChunkSize

\* C24: a run ends Aborted only if cancel was invoked while it was in
\* flight; the end of a summary generation or of another run does not abort
\* it.
C24_NoSpuriousAbort ==
    \A r \in Runs : pc[r] = "aborted" => cancelled[r] # NotCancelled

\* With no other run and no summary generation ever started, a run ends
\* Aborted only after a cancel.
AloneNoSpuriousAbort ==
    \A r \in Runs :
        (/\ pc[r] = "aborted"
         /\ \A q \in Runs \ {r} : pc[q] = "idle"
         /\ \A s \in Sums : sumPc[s] = "idle")
        => cancelled[r] # NotCancelled

\* The end of a summary generation leaves the controller alone while a
\* transcription run is in flight.
SummaryEndKeepsController ==
    [][\A s \in Sums :
          (/\ sumPc[s] = "calling"
           /\ sumPc'[s] # "calling"
           /\ \E r \in Runs : InFlight(r))
          => abortController' = abortController]_vars

\* Run r takes a step: its position, loop variable or buffer changes.
RunSteps(r) == <<pc[r], idx[r], full[r]>>' # <<pc[r], idx[r], full[r]>>

\* C25: once cancel has been invoked during a run, that run issues no
\* further backend call, and no step of it writes to the transcript display
\* or to currentTranscription.
C25_CancelledStaysCancelled ==
    [][\A r \in Runs :
          cancelled[r] # NotCancelled =>
              /\ calls'[r] = calls[r]
              /\ RunSteps(r) =>
                     /\ transcriptionOutput' = transcriptionOutput
                     /\ currentTranscription' = currentTranscription]_vars

\* C27: whenever no transcription run is in flight, currentTranscription is
\* empty or is the transcript on the display.
C27_SummarySourceMatchesDisplay ==
    (\A r \in Runs : ~InFlight(r))
    => (currentTranscription = Empty \/ currentTranscription = transcriptionOutput)

\* The step in which a run ends Done leaves currentTranscription and the
\* display equal.
DoneStepMatchesDisplay ==
    [][\A r \in Runs :
          (pc[r] # "done" /\ pc'[r] = "done")
          => currentTranscription' = transcriptionOutput']_vars

Terminal == {"done", "aborted", "errored"}

\* C28: every started run eventually reaches a terminal state, whatever
\* cancels, submits and summary requests come in between, and a run that has
\* reached a terminal state stays in it.
C28_Termination ==
    /\ \A r \in Runs : (pc[r] # "idle") ~> (pc[r] \in Terminal)
    /\ [][\A r \in Runs : pc[r] \in Terminal => pc'[r] = pc[r]]_vars

\* Two runs overlapped, a cancel came in between, and both have ended: one
\* Aborted, one Done with every chunk gone through.
C28_Witness ==
    \E r, q \in Runs :
        /\ pc[r] = "aborted"
        /\ cancelled[r] # NotCancelled
        /\ pc[q] = "done"
        /\ idx[q] = MaxChunks

\* No transcription run and no summary generation is in flight.
NothingInFlight ==
    /\ \A r \in Runs : ~InFlight(r)
    /\ \A s \in Sums : sumPc[s] # "calling"

\* C29: whenever no transcription run and no summary generation is in
\* flight, the status indicator is hidden.
C29_StatusIndicator == NothingInFlight => statusHidden

\* Nothing is in flight after a run has ended, a summary generation has
\* failed, and another run was cancelled and ended Aborted.
C29_Witness ==
    /\ NothingInFlight
    /\ statusHidden
    /\ \E r \in Runs : pc[r] = "aborted"
    /\ \E r \in Runs : pc[r] = "done"
    /\ \E s \in Sums : sumPc[s] = "failed"

\* C30: a submit with no file selected changes the transcript display and
\* nothing else: not currentTranscription, not the summary display, not the
\* abort controller or any signal, not the status indicator, and no run or
\* summary generation in flight.
C30_RejectedSubmitFrame ==
    [][(/\ file = NoFile
        /\ transcriptionOutput' = MsgSelectFile
        /\ transcriptionOutput' # transcriptionOutput)
       => UNCHANGED <<file, abortController, aborted, currentTranscription,
                      summaryOutput, statusHidden, runVars, sumVars>>]_vars

\* The message is on the display with no file selected, while a run is in
\* flight and currentTranscription holds a transcript.
C30_Witness ==
    /\ file = NoFile
    /\ transcriptionOutput = MsgSelectFile
    /\ currentTranscription # Empty
    /\ \E r \in Runs : InFlight(r)

\* ------------------------------------------------ chunkFile on its own

ProbeTypes == {"", "audio/wav", "video/mp4"}

ProbeNames == {"a.wav", "clip"}

ProbeFiles ==
    {[size |-> s, type |-> t, name |-> n] :
        s \in 0..MaxProbeSize, t \in ProbeTypes, n \in ProbeNames}

InitChunk ==
    /\ InitApp
    /\ v2 = V2Start(TRUE)
    /\ v1 = V1Start
    /\ probe \in {[fn |-> "chunkFile", file |-> f, max |-> m, out |-> <<>>,
                   done |-> FALSE] : f \in ProbeFiles, m \in 1..MaxProbeChunk}

\* chunkFile is applied to the drawn file and maximum chunk size.
ApplyChunkFile ==
    /\ probe.fn = "chunkFile"
    /\ ~probe.done
    /\ probe' = [probe EXCEPT !.out = chunkFile(probe.file, probe.max),
                              !.done = TRUE]
    /\ UNCHANGED <<appVars, v2, v1>>

NextChunk == ApplyChunkFile

SpecChunk == InitChunk /\ [][NextChunk]_vars

ChunkSize(c) == c.end - c.start

\* C6: the chunks are byte ranges in index order, each starting where the
\* previous one ends, the first at 0 and the last ending at the file size
\* (none at all for an empty file), and a non-empty file of size S yields
\* ceil(S / M) of them.
C6_ChunkCoverage ==
    probe.done =>
        LET out == probe.out
            S == probe.file.size
        IN /\ \A i \in 1..Len(out) : out[i].start <= out[i].end
           /\ \A i \in 1..(Len(out) - 1) : out[i].end = out[i + 1].start
           /\ IF out = <<>>
              THEN S = 0
              ELSE out[1].start = 0 /\ out[Len(out)].end = S
           /\ S > 0 => Len(out) = CeilDiv(S, probe.max)

\* A file that is not a multiple of the chunk size was cut in three or more.
C6_Witness ==
    /\ probe.done
    /\ Len(probe.out) >= 3
    /\ probe.file.size % probe.max # 0

\* C7: every chunk has between 1 and M bytes, every chunk but the last has
\* exactly M, and an empty file yields no chunk.
C7_ChunkSizeBounds ==
    probe.done =>
        LET out == probe.out
        IN /\ \A i \in 1..Len(out) :
                  ChunkSize(out[i]) >= 1 /\ ChunkSize(out[i]) <= probe.max
           /\ \A i \in 1..(Len(out) - 1) : ChunkSize(out[i]) = probe.max
           /\ probe.file.size = 0 => out = <<>>

\* The last of several chunks is shorter than the maximum.
C7_Witness ==
    /\ probe.done
    /\ Len(probe.out) >= 2
    /\ ChunkSize(probe.out[Len(probe.out)]) < probe.max

\* C8: every chunk carries the parent file's type and name.
C8_ChunkMetadata ==
    probe.done =>
        \A i \in 1..Len(probe.out) :
            /\ probe.out[i].type = probe.file.type
            /\ probe.out[i].name = probe.file.name

\* Chunks of a typed parent, which the slice alone would leave untyped.
C8_Witness ==
    /\ probe.done
    /\ Len(probe.out) >= 2
    /\ probe.file.type = "video/mp4"

\* ------------------------------------------------------ the MIME resolver

\* A file name or a media type is a sequence of pieces: a piece is "." or
\* "audio/" or a run of other characters. Pieces are chosen so that no two
\* of them put together spell a key of the extension table.
NamePieces == {".", "wav", "WAV", "clip", "xyz", "constructor"}

RECURSIVE SeqsUpTo(_, _)
SeqsUpTo(S, n) ==
    IF n = 0 THEN {<<>>}
    ELSE LET shorter == SeqsUpTo(S, n - 1)
         IN shorter \cup {Append(q, x) : q \in shorter, x \in S}

MimeNames == SeqsUpTo(NamePieces, MaxNameLen)

MimeTypes ==
    {<<>>, <<"audio/", "x-wav">>, <<"video/", "mp4">>,
     <<"application/", "octet-stream">>, <<"audio">>}

\* String.prototype.startsWith for a prefix that is one piece.
StartsWith(t, prefix) == t # <<>> /\ t[1] = prefix

\* String.prototype.split('.'): the parts between the dots, from the left;
\* acc are the parts closed so far and cur is the part being read.
RECURSIVE SplitLoop(_, _, _)
SplitLoop(name, acc, cur) ==
    IF name = <<>> THEN Append(acc, cur)
    ELSE IF Head(name) = "."
         THEN SplitLoop(Tail(name), Append(acc, cur), <<>>)
         ELSE SplitLoop(Tail(name), acc, Append(cur, Head(name)))

Split(name) == SplitLoop(name, <<>>, <<>>)

\* Array.prototype.pop: the last element.
Pop(parts) == parts[Len(parts)]

\* String.prototype.toLowerCase.
LowerPiece(x) == IF x = "WAV" THEN "wav" ELSE x

ToLowerCase(t) == [i \in 1..Len(t) |-> LowerPiece(t[i])]

\* file.name.split('.').pop().toLowerCase()
Extension(name) == ToLowerCase(Pop(Split(name)))

\* const mimeTypes = { ... }: the own properties of the table.
mimeTypes ==
    [mp3 |-> <<"audio/", "mpeg">>, wav |-> <<"audio/", "wav">>,
     ogg |-> <<"audio/", "ogg">>, webm |-> <<"audio/", "webm">>,
     m4a |-> <<"audio/", "mp4">>, aac |-> <<"audio/", "aac">>,
     flac |-> <<"audio/", "flac">>, mp4 |-> <<"video/", "mp4">>,
     mov |-> <<"video/", "quicktime">>, avi |-> <<"video/", "x-msvideo">>,
     mkv |-> <<"video/", "x-matroska">>]

Undefined == <<"undefined">>

\* What the table inherits from Object.prototype under a lowercase name.
InheritedValue == <<"function Object">>

\* mimeTypes[extension]: an own property, an inherited one, or undefined.
Lookup(ext) ==
    IF Len(ext) = 1 /\ ext[1] \in DOMAIN mimeTypes THEN mimeTypes[ext[1]]
    ELSE IF ext = <<"constructor">> THEN InheritedValue
    ELSE Undefined

DefaultMime == <<"audio/", "mpeg">>

getAudioMimeType(f) ==
    IF f.type # <<>> /\ (StartsWith(f.type, "audio/") \/ StartsWith(f.type, "video/"))
    THEN f.type
    ELSE LET found == Lookup(Extension(f.name))
         IN IF found = Undefined THEN DefaultMime ELSE found

InitMime ==
    /\ InitApp
    /\ v2 = V2Start(TRUE)
    /\ v1 = V1Start
    /\ probe \in {[fn |-> "getAudioMimeType", file |-> [type |-> t, name |-> n],
                   out |-> <<>>, done |-> FALSE] : t \in MimeTypes, n \in MimeNames}

ApplyGetAudioMimeType ==
    /\ probe.fn = "getAudioMimeType"
    /\ ~probe.done
    /\ probe' = [probe EXCEPT !.out = getAudioMimeType(probe.file), !.done = TRUE]
    /\ UNCHANGED <<appVars, v2, v1>>

NextMime == ApplyGetAudioMimeType

SpecMime == InitMime /\ [][NextMime]_vars

HasDot(name) == \E i \in 1..Len(name) : name[i] = "."

\* The text after the last '.' of a name that has one.
AfterLastDot(name) ==
    LET d == CHOOSE i \in 1..Len(name) :
                 name[i] = "." /\ \A j \in (i + 1)..Len(name) : name[j] # "."
    IN SubSeq(name, d + 1, Len(name))

\* The extension is a key of the table.
InTable(ext) == Len(ext) = 1 /\ ext[1] \in DOMAIN mimeTypes

\* C16: a declared type that starts with 'audio/' or 'video/' is returned
\* unchanged; otherwise the result is the table entry of the lowercase text
\* after the last '.' of the name, and 'audio/mpeg' when that text is not in
\* the table or the name has no '.' at all.
C16_MimeResolution ==
    probe.done =>
        LET f == probe.file
        IN IF f.type # <<>> /\ f.type[1] \in {"audio/", "video/"}
           THEN probe.out = f.type
           ELSE IF HasDot(f.name) /\ InTable(ToLowerCase(AfterLastDot(f.name)))
                THEN probe.out = mimeTypes[ToLowerCase(AfterLastDot(f.name))[1]]
                ELSE probe.out = DefaultMime

\* ------------------------------------------- the speech-recognition adapter

\* wordInfo.speakerTag: a speaker number, or Absent (undefined, or the 0 of
\* an unset field).
Absent == 0

Tags == {Absent, 1, 2}

\* A result segment: no alternative at all, or a top alternative with its
\* word list (empty: no word-level detail), each word given by its tag.
ResultSegments ==
    {[alt |-> FALSE, words |-> <<>>]}
    \cup {[alt |-> TRUE, words |-> w] : w \in SeqsUpTo(Tags, MaxWords)}

\* A response: results is undefined (defined is FALSE), or a list of result
\* segments.
NoResults == [defined |-> FALSE, results |-> <<>>]

Responses ==
    {NoResults}
    \cup {[defined |-> TRUE, results |-> q] : q \in SeqsUpTo(ResultSegments, MaxResults)}

\* alternatives[0].transcript of the j-th result segment.
Transcript(j) == <<[k |-> "txt", n |-> j]>>

\* `${wordInfo.word} `
WordSegment == <<[k |-> "word", n |-> 0], Space>>

\* `\n\nSpeaker ${speakerTag}: `
SpeakerLabel(tag) == <<Newline, Newline, [k |-> "label", n |-> tag], Space>>

\* wordInfo.speakerTag || 1
SpeakerTag(tag) == IF tag = Absent THEN 1 ELSE tag

NoSpeaker == -1

\* Every word is taken for a change of speaker.
SpeakerChangedAlways(currentSpeaker, speakerTag) == TRUE

\* currentSpeaker !== speakerTag
SpeakerChanged(currentSpeaker, speakerTag) == currentSpeaker # speakerTag

\* alternative.words.forEach(...): st holds transcription and currentSpeaker.
RECURSIVE WordsLoop(_, _)
WordsLoop(words, st) ==
    IF words = <<>> THEN st
    ELSE LET speakerTag == SpeakerTag(Head(words))
             labelled ==
                 IF SpeakerChanged(st.currentSpeaker, speakerTag)
                 THEN [transcription |-> st.transcription \o SpeakerLabel(speakerTag),
                       currentSpeaker |-> speakerTag]
                 ELSE st
         IN WordsLoop(Tail(words),
                      [labelled EXCEPT !.transcription = @ \o WordSegment])

\* response.results.forEach(...) of the diarized branch, from segment j on.
RECURSIVE ResultsLoop(_, _, _)
ResultsLoop(results, j, st) ==
    IF j > Len(results) THEN st
    ELSE LET result == results[j]
         IN ResultsLoop(results, j + 1,
                IF ~result.alt THEN st
                ELSE IF result.words # <<>> THEN WordsLoop(result.words, st)
                ELSE [st EXCEPT !.transcription = @ \o Transcript(j)])

\* Array.prototype.join of texts with a separator token.
RECURSIVE Join(_, _)
Join(texts, sep) ==
    IF texts = <<>> THEN <<>>
    ELSE IF Len(texts) = 1 THEN texts[1]
    ELSE texts[1] \o <<sep>> \o Join(Tail(texts), sep)

Returned(text) == [ok |-> TRUE, text |-> text]

\* The promise rejects with a TypeError.
Thrown == [ok |-> FALSE, text |-> <<>>]

\* results.map(result => result.alternatives[0].transcript).join(sep)
MapJoin(results, sep) ==
    IF \E j \in 1..Len(results) : ~results[j].alt
    THEN Thrown
    ELSE Returned(Join([j \in 1..Len(results) |-> Transcript(j)], sep))

\* transcribeAudioWithSpeechToText from the response on (speechClient.js
\* second adapter); diarize is options.enableSpeakerDiarization.
transcribeAudioWithSpeechToText(response, diarize) ==
    IF ~response.defined \/ Len(response.results) = 0 THEN Returned(Empty)
    ELSE IF diarize
         THEN Returned(Trim(ResultsLoop(response.results, 1,
                  [transcription |-> Empty, currentSpeaker |-> NoSpeaker]).transcription))
         ELSE MapJoin(response.results, Space)

\* transcribeWithSpeechToText from the response on (first adapter).
transcribeWithSpeechToText(response) ==
    IF ~response.defined THEN Thrown ELSE MapJoin(response.results, Newline)

InitStt ==
    /\ InitApp
    /\ v2 = V2Start(TRUE)
    /\ v1 = V1Start
    /\ probe \in
          {[fn |-> "transcribeAudioWithSpeechToText", response |-> res,
            diarize |-> d, out |-> Thrown, done |-> FALSE] :
               res \in Responses, d \in BOOLEAN}
          \cup {[fn |-> "transcribeWithSpeechToText", response |-> res,
                 diarize |-> FALSE, out |-> Thrown, done |-> FALSE] :
                    res \in Responses}

ApplyTranscribeAudioWithSpeechToText ==
    /\ probe.fn = "transcribeAudioWithSpeechToText"
    /\ ~probe.done
    /\ probe' = [probe EXCEPT
                    !.out = transcribeAudioWithSpeechToText(probe.response, probe.diarize),
                    !.done = TRUE]
    /\ UNCHANGED <<appVars, v2, v1>>

ApplyTranscribeWithSpeechToText ==
    /\ probe.fn = "transcribeWithSpeechToText"
    /\ ~probe.done
    /\ probe' = [probe EXCEPT !.out = transcribeWithSpeechToText(probe.response),
                              !.done = TRUE]
    /\ UNCHANGED <<appVars, v2, v1>>

NextStt ==
    \/ ApplyTranscribeAudioWithSpeechToText
    \/ ApplyTranscribeWithSpeechToText

SpecStt == InitStt /\ [][NextStt]_vars

\* The speaker tags of all words of a response, in order, across its result
\* segments, an absent tag counted as 1.
RECURSIVE AllTags(_)
AllTags(results) ==
    IF results = <<>> THEN <<>>
    ELSE (IF Head(results).alt
          THEN [i \in 1..Len(Head(results).words) |->
                   IF Head(results).words[i] = Absent THEN 1
                   ELSE Head(results).words[i]]
          ELSE <<>>)
         \o AllTags(Tail(results))

\* The tags at the first word and at every word whose tag differs from the
\* previous word's.
ExpectedLabels(tags) ==
    LET at == SelectSeq([i \in 1..Len(tags) |-> i],
                        LAMBDA i : i = 1 \/ tags[i] # tags[i - 1])
    IN [j \in 1..Len(at) |-> tags[at[j]]]

\* The speakers named by the 'Speaker N: ' labels of a text, in order.
Labels(text) ==
    LET labels == SelectSeq(text, LAMBDA tok : tok.k = "label")
    IN [j \in 1..Len(labels) |-> labels[j].n]

\* C19: with diarization requested, the formatted text carries one
\* 'Speaker N: ' label for the first word and one for each word whose speaker
\* tag (1 when absent) differs from the previous word's, across result
\* segments, in word order.
C19_DiarizationLabels ==
    (probe.done /\ probe.fn = "transcribeAudioWithSpeechToText" /\ probe.diarize)
    => /\ probe.out.ok
       /\ Labels(probe.out.text) = ExpectedLabels(AllTags(probe.response.results))

\* Words tagged 1,1,2,2,1 over two result segments gave the labels 1,2,1.
C19_Witness ==
    /\ probe.done
    /\ probe.fn = "transcribeAudioWithSpeechToText"
    /\ probe.diarize
    /\ Len(probe.response.results) = 2
    /\ AllTags(probe.response.results) = <<1, 1, 2, 2, 1>>
    /\ Labels(probe.out.text) = <<1, 2, 1>>

\* C20: without diarization the adapter returns the top alternatives'
\* transcripts of the result segments, in segment order, joined by single
\* spaces.
C20_PlainExtraction ==
    (/\ probe.done
     /\ probe.fn \in {"transcribeAudioWithSpeechToText", "transcribeWithSpeechToText"}
     /\ ~probe.diarize
     /\ probe.response.defined
     /\ probe.response.results # <<>>
     /\ \A j \in 1..Len(probe.response.results) : probe.response.results[j].alt)
    => /\ probe.out.ok
       /\ probe.out.text =
              JoinPlain([j \in 1..Len(probe.response.results) |-> Transcript(j)[1]])

\* The second adapter alone joins by single spaces.
SecondAdapterPlainExtraction ==
    probe.fn = "transcribeAudioWithSpeechToText" => C20_PlainExtraction

\* The response carries no result segment: the list is missing or empty.
NoSegments(response) == ~response.defined \/ response.results = <<>>

\* C21: on a response with no result segments (the list missing or empty)
\* either adapter returns the empty string and raises no error, with or
\* without diarization.
C21_EmptyResult ==
    (/\ probe.done
     /\ probe.fn \in {"transcribeAudioWithSpeechToText", "transcribeWithSpeechToText"}
     /\ NoSegments(probe.response))
    => probe.out = Returned(Empty)

\* The second adapter alone returns the empty string for such a response.
SecondAdapterEmptyResult ==
    probe.fn = "transcribeAudioWithSpeechToText" => C21_EmptyResult

\* The first adapter returns the empty string for an empty list.
FirstAdapterEmptyList ==
    (/\ probe.done
     /\ probe.fn = "transcribeWithSpeechToText"
     /\ probe.response.defined
     /\ probe.response.results = <<>>)
    => probe.out = Returned(Empty)

\* ------------------------------------------- the adapter's request settings

\* An option the caller left out (undefined), and one the caller supplied.
Unset(placeholder) == [given |-> FALSE, v |-> placeholder]

Given(x) == [given |-> TRUE, v |-> x]

\* CONFIG.speechToText
ConfigSpeechToText ==
    [languageCode |-> "en-US", enableAutomaticPunctuation |-> TRUE,
     enableWordTimeOffsets |-> TRUE, model |-> "default",
     sampleRateHertz |-> 16000]

\* The 2 of `options.speakerCount || 2`.
DefaultSpeakerCount == 2

\* The options objects handed to the adapter: every field left out, supplied
\* with a falsy value, or supplied with a truthy one.
OptionSets ==
    [languageCode : {Unset(""), Given(""), Given("en-GB")},
     model : {Unset(""), Given(""), Given("video")},
     enableAutomaticPunctuation : {Unset(FALSE), Given(FALSE), Given(TRUE)},
     enableWordTimeOffsets : {Unset(FALSE), Given(FALSE), Given(TRUE)},
     sampleRateHertz : {Unset(0), Given(0), Given(8000)},
     speakerCount : {Unset(0), Given(0), Given(3)},
     enableSpeakerDiarization : BOOLEAN]

\* options = {}: every option left out.
NoOptions ==
    [languageCode |-> Unset(""), model |-> Unset(""),
     enableAutomaticPunctuation |-> Unset(FALSE),
     enableWordTimeOffsets |-> Unset(FALSE), sampleRateHertz |-> Unset(0),
     speakerCount |-> Unset(0), enableSpeakerDiarization |-> FALSE]

\* options.x || fallback, where falsy is the falsy value of x's type.
OrElse(opt, falsy, fallback) ==
    IF opt.given /\ opt.v # falsy THEN opt.v ELSE fallback

\* options.x !== undefined ? options.x : fallback
DefinedOrElse(opt, fallback) == IF opt.given THEN opt.v ELSE fallback

\* const settings = { ... }
settings(options) ==
    [languageCode |->
         OrElse(options.languageCode, "", ConfigSpeechToText.languageCode),
     enableAutomaticPunctuation |->
         DefinedOrElse(options.enableAutomaticPunctuation,
                       ConfigSpeechToText.enableAutomaticPunctuation),
     enableWordTimeOffsets |->
         DefinedOrElse(options.enableWordTimeOffsets,
                       ConfigSpeechToText.enableWordTimeOffsets),
     model |-> OrElse(options.model, "", ConfigSpeechToText.model),
     sampleRateHertz |->
         OrElse(options.sampleRateHertz, 0, ConfigSpeechToText.sampleRateHertz)]

\* request.config without the encoding: the merged settings, and the
\* diarization fields spread in when diarization is requested (diarized
\* tells whether they are there).
requestConfig(options) ==
    LET s == settings(options)
    IN [sampleRateHertz |-> s.sampleRateHertz,
        languageCode |-> s.languageCode,
        enableAutomaticPunctuation |-> s.enableAutomaticPunctuation,
        enableWordTimeOffsets |-> s.enableWordTimeOffsets,
        model |-> s.model,
        diarized |-> options.enableSpeakerDiarization,
        diarizationSpeakerCount |->
            IF options.enableSpeakerDiarization
            THEN OrElse(options.speakerCount, 0, DefaultSpeakerCount)
            ELSE 0]

InitSettings ==
    /\ InitApp
    /\ v2 = V2Start(TRUE)
    /\ v1 = V1Start
    /\ probe \in {[fn |-> "requestConfig", options |-> o,
                   out |-> requestConfig(NoOptions), done |-> FALSE] :
                      o \in OptionSets}

\* The adapter builds its request from the drawn options.
ApplyRequestConfig ==
    /\ probe.fn = "requestConfig"
    /\ ~probe.done
    /\ probe' = [probe EXCEPT !.out = requestConfig(probe.options), !.done = TRUE]
    /\ UNCHANGED <<appVars, v2, v1>>

NextSettings == ApplyRequestConfig

SpecSettings == InitSettings /\ [][NextSettings]_vars

\* What the claim has the request carry for an option: the override when the
\* caller supplied one, the default otherwise.
OverrideWins(opt, default) == IF opt.given THEN opt.v ELSE default

\* C22: each of languageCode, model, enableAutomaticPunctuation,
\* enableWordTimeOffsets, sampleRateHertz and (with diarization requested)
\* speakerCount goes into the request with the caller's override whenever the
\* caller supplied one, false, 0 and '' included, and with the default only
\* when the caller supplied none.
C22_SettingsMerge ==
    (probe.done /\ probe.fn = "requestConfig") =>
        LET o == probe.options
            c == probe.out
        IN /\ c.languageCode =
                  OverrideWins(o.languageCode, ConfigSpeechToText.languageCode)
           /\ c.model = OverrideWins(o.model, ConfigSpeechToText.model)
           /\ c.enableAutomaticPunctuation =
                  OverrideWins(o.enableAutomaticPunctuation,
                               ConfigSpeechToText.enableAutomaticPunctuation)
           /\ c.enableWordTimeOffsets =
                  OverrideWins(o.enableWordTimeOffsets,
                               ConfigSpeechToText.enableWordTimeOffsets)
           /\ c.sampleRateHertz =
                  OverrideWins(o.sampleRateHertz, ConfigSpeechToText.sampleRateHertz)
           /\ o.enableSpeakerDiarization =>
                  c.diarizationSpeakerCount =
                      OverrideWins(o.speakerCount, DefaultSpeakerCount)

\* The two flags are merged as the claim says: they are tested against
\* undefined.
FlagsMerge ==
    (probe.done /\ probe.fn = "requestConfig") =>
        /\ probe.out.enableAutomaticPunctuation =
               OverrideWins(probe.options.enableAutomaticPunctuation,
                            ConfigSpeechToText.enableAutomaticPunctuation)
        /\ probe.out.enableWordTimeOffsets =
               OverrideWins(probe.options.enableWordTimeOffsets,
                            ConfigSpeechToText.enableWordTimeOffsets)

\* Every truthy override wins, and every option left out gets its default.
TruthyOverridesMerge ==
    (/\ probe.done
     /\ probe.fn = "requestConfig"
     /\ probe.options.languageCode # Given("")
     /\ probe.options.model # Given("")
     /\ probe.options.sampleRateHertz # Given(0)
     /\ probe.options.speakerCount # Given(0))
    => C22_SettingsMerge

\* ------------------------------------------------- the dual-API pipeline

FileSizesV2 == {0} \cup {k * ConfigMaxChunkSize - 5 : k \in 1..MaxChunks}

FilesV2 ==
    {[size |-> s, type |-> "audio/mpeg", name |-> "a.mp3"] : s \in FileSizesV2}
    \cup {[size |-> s, type |-> "video/mp4", name |-> "v.mp4"] : s \in FileSizesV2}

\* file.type.startsWith('video/'), on the media types of FilesV2.
IsVideo(f) == f.type \in {"video/mp4"}

\* What extractAudioFromVideo resolves with: an audio blob of some size.
ExtractedAudio(f, size) == [size |-> size, type |-> "audio/webm", name |-> "v.webm"]

MsgSelectFileV2 == Msg(4)

\* Run r reaches the loop condition of processWithGemini or
\* processWithSpeechToText in page state s with loop variable i and
\* fullTranscription f, and runs on to its next suspension or to the end of
\* handleTranscriptionRequest.
V2Enter(s, r, i, f) ==
    IF i < Len(s.run[r].chunks)
    THEN \* showStatus; await readFileAsArrayBuffer
         [s EXCEPT !.run[r].idx = i, !.run[r].full = f,
                   !.run[r].pc = "reading", !.statusHidden = FALSE]
    ELSE \* displayResult(fullTranscription); hideStatus()
         [s EXCEPT !.run[r].idx = i, !.run[r].full = f,
                   !.run[r].pc = "done", !.out = f, !.statusHidden = TRUE]

\* processWithGemini(audioFile) or processWithSpeechToText(audioFile), up to
\* the first suspension.
V2Process(s, r, audio) ==
    V2Enter([s EXCEPT !.run[r].audio = audio,
                      !.run[r].chunks = chunkFile(audio, ConfigMaxChunkSize)],
            r, 0, Empty)

\* The catch of the chunk loop: the placeholder is appended, the loop goes on.
V2Failed(s, r) ==
    V2Enter(s, r, NextIndex(s.run[r].idx),
            s.run[r].full \o ErrorSegment(s.run[r].idx))

\* if (!speechClient) throw new Error('Speech-to-Text client not initialized')
ClientMissing(s, r) == ~s.run[r].useGemini /\ ~s.speechClient

V2SelectFile(f) ==
    /\ v2' = [v2 EXCEPT !.file = f, !.out = Empty]
    /\ UNCHANGED <<appVars, probe, v1>>

V2SubmitNoFile ==
    /\ FileMissing(v2.file)
    /\ v2' = [v2 EXCEPT !.out = MsgSelectFileV2]
    /\ UNCHANGED <<appVars, probe, v1>>

\* handleTranscriptionRequest with a file; g is apiSelect.value === 'gemini'.
V2Submit(r, g) ==
    /\ ~FileMissing(v2.file)
    /\ v2.run[r].pc = "idle"
    /\ \A q \in Runs : q < r => v2.run[q].pc # "idle"
    /\ LET s == [v2 EXCEPT !.statusHidden = FALSE, !.out = Empty,
                           !.run[r].useGemini = g, !.run[r].src = v2.file]
       IN v2' = IF IsVideo(v2.file)
                THEN [s EXCEPT !.run[r].pc = "extracting"]
                ELSE V2Process(s, r, v2.file)
    /\ UNCHANGED <<appVars, probe, v1>>

V2ExtractResolve(r, size) ==
    /\ v2.run[r].pc = "extracting"
    /\ v2' = V2Process(v2, r, ExtractedAudio(v2.run[r].src, size))
    /\ UNCHANGED <<appVars, probe, v1>>

\* catch: audioFile = file
V2ExtractReject(r) ==
    /\ v2.run[r].pc = "extracting"
    /\ v2' = V2Process(v2, r, v2.run[r].src)
    /\ UNCHANGED <<appVars, probe, v1>>

\* The chunk has been read; the request goes to the backend, unless the
\* speech client is missing.
V2ReadResolve(r) ==
    /\ v2.run[r].pc = "reading"
    /\ v2' = IF ClientMissing(v2, r)
             THEN V2Failed(v2, r)
             ELSE [v2 EXCEPT !.run[r].pc = "calling",
                             !.run[r].sent = Append(@, ChunkNumber(v2.run[r].idx))]
    /\ UNCHANGED <<appVars, probe, v1>>

V2ReadReject(r) ==
    /\ v2.run[r].pc = "reading"
    /\ v2' = V2Failed(v2, r)
    /\ UNCHANGED <<appVars, probe, v1>>

V2CallResolve(r) ==
    /\ v2.run[r].pc = "calling"
    /\ LET i == v2.run[r].idx
           f == v2.run[r].full \o TextSegment(ChunkText(ChunkNumber(i)))
           s == [v2 EXCEPT !.run[r].full = f, !.out = f]
       IN v2' = IF DelayFollows(i, Len(v2.run[r].chunks))
                THEN [s EXCEPT !.run[r].pc = "delay"]
                ELSE V2Enter(s, r, NextIndex(i), f)
    /\ UNCHANGED <<appVars, probe, v1>>

V2CallReject(r) ==
    /\ v2.run[r].pc = "calling"
    /\ v2' = V2Failed(v2, r)
    /\ UNCHANGED <<appVars, probe, v1>>

V2DelayDone(r) ==
    /\ v2.run[r].pc = "delay"
    /\ v2' = V2Enter(v2, r, NextIndex(v2.run[r].idx), v2.run[r].full)
    /\ UNCHANGED <<appVars, probe, v1>>

InitV2 ==
    /\ InitApp
    /\ probe = NoProbe
    /\ v2 \in {V2Start(client) : client \in BOOLEAN}
    /\ v1 = V1Start

NextV2 ==
    \/ \E f \in FilesV2 : V2SelectFile(f)
    \/ V2SubmitNoFile
    \/ \E r \in Runs : \E g \in BOOLEAN : V2Submit(r, g)
    \/ \E r \in Runs : \E size \in FileSizesV2 : V2ExtractResolve(r, size)
    \/ \E r \in Runs : V2ExtractReject(r)
    \/ \E r \in Runs : V2ReadResolve(r)
    \/ \E r \in Runs : V2ReadReject(r)
    \/ \E r \in Runs : V2CallResolve(r)
    \/ \E r \in Runs : V2CallReject(r)
    \/ \E r \in Runs : V2DelayDone(r)

SpecV2 == InitV2 /\ [][NextV2]_vars

\* The dual-API pipeline starts a run only while a file is selected, and its
\* 'please select a file' message touches no run.
V2SubmitWithoutFile ==
    [][/\ \A r \in Runs :
              (v2.run[r].pc = "idle" /\ v2'.run[r].pc # "idle") => v2.file # NoFile
       /\ (v2.file = NoFile /\ v2'.out = MsgSelectFileV2 /\ v2.out # MsgSelectFileV2)
          => v2'.run = v2.run]_vars

\* The dual-API pipeline shows the buffer whenever a segment is appended.
V2IncrementalPublication ==
    [][\A r \in Runs :
          (v2.run[r].pc # "idle" /\ v2'.run[r].full # v2.run[r].full)
          => v2'.out = v2'.run[r].full]_vars

\* The dual-API pipeline falls back on the original file when the extraction
\* fails.
V2ExtractionFallback ==
    [][\A r \in Runs :
          (/\ v2.run[r].pc = "extracting"
           /\ v2'.run[r].pc # "extracting"
           /\ v2'.run[r].audio.type # "audio/webm")
          => (/\ v2'.run[r].pc # "errored"
              /\ v2'.run[r].audio = v2.run[r].src)]_vars

\* The dual-API pipeline cuts its chunks with the configured maximum.
V2ConfiguredChunkSize ==
    \A r \in Runs :
        v2.run[r].pc \notin {"idle", "extracting"} =>
            v2.run[r].chunks = chunkFile(v2.run[r].audio, ConfigMaxChunkSize)

\* C5: a speech-recognition run started while the speech client is not
\* initialized does no chunk work and does not finish as Done: it is at most
\* extracting audio, or has ended Errored.
C5_BackendUnavailableFatal ==
    \A r \in Runs :
        (v2.run[r].pc # "idle" /\ ClientMissing(v2, r))
        => v2.run[r].pc \in {"extracting", "errored"}

\* ------------------------------------------------ the threshold pipeline

\* File sizes around the threshold: empty, below, exactly at, and above it.
FileSizesV1 ==
    {0, ConfigMaxChunkSizeV1}
    \cup {k * ConfigMaxChunkSizeV1 - 5 : k \in 1..MaxChunks}

FilesV1 ==
    {[size |-> s, type |-> "audio/mpeg", name |-> "a.mp3"] : s \in FileSizesV1}
    \cup {[size |-> s, type |-> "video/mp4", name |-> "v.mp4"] : s \in FileSizesV1}

\* 'Processing audio...'
MsgProcessing == Msg(7)

\* 'Extracting audio from video...'
MsgExtracting == Msg(8)

\* 'No transcription generated'
MsgNoTranscription == Msg(9)

\* `Processing chunk ${i + 1} of ${chunks.length}...`
MsgChunkStatus(i) == <<[k |-> "status", n |-> i + 1]>>

\* `[Error processing chunk ${i + 1}] ` for loop variable i.
ErrorSegmentV1(i) == <<[k |-> "err", n |-> i + 1], Space>>

\* The file itself, handed to processAudioChunk in one piece.
WholeFile(f) == [start |-> 0, end |-> f.size, type |-> f.type, name |-> f.name]

\* if (audioFile.size > CONFIG.fileProcessing.maxChunkSize)
NeedsChunking(f) == f.size > ConfigMaxChunkSizeV1

\* transcriptionOutput.textContent = fullTranscription || '...'; the handler
\* returns.
V1Finish(s, r, f) ==
    [s EXCEPT !.run[r].full = f, !.run[r].pc = "done",
              !.out = IF f = Empty THEN MsgNoTranscription ELSE f]

\* The outer catch of handleAudioTranscription.
V1Errored(s, r) == [s EXCEPT !.run[r].pc = "errored", !.out = MsgError]

\* Run r reaches the loop condition with loop variable i and
\* fullTranscription f, and runs on to its next suspension or to the end.
V1Enter(s, r, i, f) ==
    IF i < Len(s.run[r].chunks)
    THEN [s EXCEPT !.run[r].idx = i, !.run[r].full = f,
                   !.run[r].pc = "reading", !.out = MsgChunkStatus(i)]
    ELSE V1Finish([s EXCEPT !.run[r].idx = i], r, f)

\* The handler from 'Determine which API to use' to its first suspension.
V1Process(s, r, audio) ==
    IF NeedsChunking(audio)
    THEN V1Enter([s EXCEPT !.run[r].audio = audio, !.run[r].chunked = TRUE,
                           !.run[r].chunks = chunkFile(audio, ConfigMaxChunkSizeV1)],
                 r, 0, Empty)
    ELSE [s EXCEPT !.run[r].audio = audio, !.run[r].chunked = FALSE,
                   !.run[r].chunks = <<WholeFile(audio)>>,
                   !.run[r].idx = 0, !.run[r].pc = "reading"]

\* processAudioChunk rejects: a placeholder inside the loop, the outer catch
\* outside it.
V1Failed(s, r) ==
    IF s.run[r].chunked
    THEN V1Enter(s, r, NextIndex(s.run[r].idx),
                 s.run[r].full \o ErrorSegmentV1(s.run[r].idx))
    ELSE V1Errored(s, r)

\* The change listener of the file input: the players only.
V1SelectFile(f) ==
    /\ v1' = [v1 EXCEPT !.file = f]
    /\ UNCHANGED <<appVars, probe, v2>>

V1SubmitNoFile ==
    /\ FileMissing(v1.file)
    /\ v1' = [v1 EXCEPT !.out = MsgSelectFileV2]
    /\ UNCHANGED <<appVars, probe, v2>>

\* handleAudioTranscription with a file; stt is the API choice.
V1Submit(r, stt) ==
    /\ ~FileMissing(v1.file)
    /\ v1.run[r].pc = "idle"
    /\ \A q \in Runs : q < r => v1.run[q].pc # "idle"
    /\ LET s == [v1 EXCEPT !.run[r].useSTT = stt, !.run[r].src = v1.file]
       IN v1' = IF IsVideo(v1.file)
                THEN [s EXCEPT !.out = MsgExtracting, !.run[r].pc = "extracting"]
                ELSE V1Process([s EXCEPT !.out = MsgProcessing], r, v1.file)
    /\ UNCHANGED <<appVars, probe, v2>>

V1ExtractResolve(r, size) ==
    /\ v1.run[r].pc = "extracting"
    /\ v1' = V1Process(v1, r, ExtractedAudio(v1.run[r].src, size))
    /\ UNCHANGED <<appVars, probe, v2>>

\* await extractAudioFromVideo(file) rejects: nothing but the outer catch.
V1ExtractReject(r) ==
    /\ v1.run[r].pc = "extracting"
    /\ v1' = V1Errored(v1, r)
    /\ UNCHANGED <<appVars, probe, v2>>

V1ReadResolve(r) ==
    /\ v1.run[r].pc = "reading"
    /\ v1' = [v1 EXCEPT !.run[r].pc = "calling",
                        !.run[r].sent = Append(@, v1.run[r].chunks[v1.run[r].idx + 1])]
    /\ UNCHANGED <<appVars, probe, v2>>

V1ReadReject(r) ==
    /\ v1.run[r].pc = "reading"
    /\ v1' = V1Failed([v1 EXCEPT !.run[r].outcomes = Append(@, "unread")], r)
    /\ UNCHANGED <<appVars, probe, v2>>

V1CallResolve(r) ==
    /\ v1.run[r].pc = "calling"
    /\ LET i == v1.run[r].idx
           text == ChunkText(ChunkNumber(i))
           s == [v1 EXCEPT !.run[r].outcomes = Append(@, "ok")]
       IN v1' = IF v1.run[r].chunked
                THEN V1Enter(s, r, NextIndex(i), v1.run[r].full \o TextSegment(text))
                ELSE V1Finish(s, r, text)
    /\ UNCHANGED <<appVars, probe, v2>>

V1CallReject(r) ==
    /\ v1.run[r].pc = "calling"
    /\ v1' = V1Failed([v1 EXCEPT !.run[r].outcomes = Append(@, "fail")], r)
    /\ UNCHANGED <<appVars, probe, v2>>

InitV1 ==
    /\ InitApp
    /\ probe = NoProbe
    /\ v2 = V2Start(TRUE)
    /\ v1 = V1Start

NextV1 ==
    \/ \E f \in FilesV1 : V1SelectFile(f)
    \/ V1SubmitNoFile
    \/ \E r \in Runs : \E stt \in BOOLEAN : V1Submit(r, stt)
    \/ \E r \in Runs : \E size \in FileSizesV1 : V1ExtractResolve(r, size)
    \/ \E r \in Runs : V1ExtractReject(r)
    \/ \E r \in Runs : V1ReadResolve(r)
    \/ \E r \in Runs : V1ReadReject(r)
    \/ \E r \in Runs : V1CallResolve(r)
    \/ \E r \in Runs : V1CallReject(r)

SpecV1 == InitV1 /\ [][NextV1]_vars

\* The threshold pipeline starts a run only while a file is selected, and
\* its 'please select a file' message touches no run.
V1SubmitWithoutFile ==
    [][/\ \A r \in Runs :
              (v1.run[r].pc = "idle" /\ v1'.run[r].pc # "idle") => v1.file # NoFile
       /\ (v1.file = NoFile /\ v1'.out = MsgSelectFileV2 /\ v1.out # MsgSelectFileV2)
          => v1'.run = v1.run]_vars

\* Every Done run of the threshold pipeline has each of its segments followed
\* by one space.
V1JoinTrailing ==
    \A r \in Runs :
        v1.run[r].pc = "done"
        => v1.run[r].full = JoinTrailing(Segments(v1.run[r].full))

\* The always-chunk pipeline (processLargeFile) on chunks cut by chunkFile,
\* when the attempt on chunk i ends as outcomes[i] says ("ok": the call
\* succeeded, "fail": the call failed, "unread": the read failed and no call
\* went out) and no cancel comes: the chunks it sends to the backend.
RECURSIVE AlwaysChunkCalls(_, _, _)
AlwaysChunkCalls(cs, outcomes, i) ==
    IF i >= Len(cs) THEN <<>>
    ELSE (IF outcomes[i + 1] = "unread" THEN <<>> ELSE <<cs[i + 1]>>)
         \o AlwaysChunkCalls(cs, outcomes, NextIndex(i))

\* Likewise, the transcript it delivers: fullTranscription after the loop.
RECURSIVE AlwaysChunkTranscript(_, _, _)
AlwaysChunkTranscript(n, outcomes, i) ==
    IF i >= n THEN Empty
    ELSE (IF outcomes[i + 1] = "ok"
          THEN TextSegment(ChunkText(ChunkNumber(i)))
          ELSE ErrorSegment(i))
         \o AlwaysChunkTranscript(n, outcomes, NextIndex(i))

\* C26: a finished run of the threshold pipeline has made the backend calls
\* the always-chunk pipeline makes on the same audio file with the same
\* outcomes, over the same byte ranges and in the same order, and has
\* delivered the same final transcript.
C26_VariantEquivalence ==
    \A r \in Runs :
        (v1.run[r].pc \in {"done", "errored"} /\ v1.run[r].audio # NoFile) =>
            LET cs == chunkFile(v1.run[r].audio, EffectiveChunkSize)
                o == v1.run[r].outcomes
            IN /\ Len(o) = Len(cs)
               /\ v1.run[r].sent = AlwaysChunkCalls(cs, o, 0)
               /\ v1.run[r].pc = "done"
               /\ v1.run[r].full = AlwaysChunkTranscript(Len(cs), o, 0)

\* The two pipelines make the same backend calls over the same byte ranges
\* on every file that is not empty.
SameCallsUnlessEmpty ==
    \A r \in Runs :
        (/\ v1.run[r].pc \in {"done", "errored"}
         /\ v1.run[r].audio # NoFile
         /\ v1.run[r].audio.size > 0) =>
            LET cs == chunkFile(v1.run[r].audio, EffectiveChunkSize)
                o == v1.run[r].outcomes
            IN /\ Len(o) = Len(cs)
               /\ v1.run[r].sent = AlwaysChunkCalls(cs, o, 0)

====
